---- MODULE Spec2Model ----
(***************************************************************************)
(* Model of the fare-polling and deal-detection cycle of src/index.js:     *)
(* the promise chain of fetch(), its catch handler, the one-shot timer     *)
(* that re-arms it, and the Twilio send with its asynchronous callback.    *)
(***************************************************************************)
EXTENDS Integers, Sequences, FiniteSets, TLC

\* ------------------------------------------------------------------ bounds
MaxCycles == 3          \* cycles started before the model stops the timer
MaxFare == 2            \* finite fare amounts are 1..MaxFare

\* ------------------------------------------------- JavaScript number values
Num(n) == [k |-> "num", v |-> n]
Infinity == [k |-> "inf", v |-> 1]
NaN == [k |-> "nan", v |-> 0]
undefined == [k |-> "undef", v |-> 0]
\* the trips/dates/flights/fares path of a leg is missing from the response
Absent == [k |-> "absent", v |-> 0]

\* ToNumber, as applied by Math.min and by the binary minus
ToNumber(x) == IF x.k = "undef" THEN NaN ELSE x

isNaN(x) == ToNumber(x).k = "nan"

isFinite(x) == ToNumber(x).k = "num"

\* a <= b on numbers; false when either side is NaN
Leq(a, b) ==
  LET x == ToNumber(a)
      y == ToNumber(b)
  IN  /\ x.k # "nan"
      /\ y.k # "nan"
      /\ IF x.k = "num" /\ y.k = "num" THEN x.v <= y.v
         ELSE IF x.k = "inf" /\ y.k = "inf" THEN x.v <= y.v
         ELSE IF x.k = "inf" THEN x.v < 0
         ELSE y.v > 0

\* a - b
Sub(a, b) ==
  LET x == ToNumber(a)
      y == ToNumber(b)
  IN  IF x.k = "nan" \/ y.k = "nan" THEN NaN
      ELSE IF x.k = "num" /\ y.k = "num" THEN Num(x.v - y.v)
      ELSE IF x.k = "inf" /\ y.k = "inf" THEN (IF x.v = y.v THEN NaN ELSE x)
      ELSE IF x.k = "inf" THEN x
      ELSE [k |-> "inf", v |-> 0 - y.v]

\* a + b
Add(a, b) ==
  LET x == ToNumber(a)
      y == ToNumber(b)
  IN  IF x.k = "nan" \/ y.k = "nan" THEN NaN
      ELSE IF x.k = "num" /\ y.k = "num" THEN Num(x.v + y.v)
      ELSE IF x.k = "inf" /\ y.k = "inf" THEN (IF x.v = y.v THEN x ELSE NaN)
      ELSE IF x.k = "inf" THEN x
      ELSE y

Gt0(x) == ~isNaN(x) /\ ~Leq(x, Num(0))

Lt0(x) == ~isNaN(x) /\ Leq(x, Num(0)) /\ ToNumber(x) # Num(0)

Eq0(x) == ToNumber(x) = Num(0)

\* Math.min(...s): Infinity for no arguments, NaN if any argument is NaN
RECURSIVE MathMin(_)
MathMin(s) ==
  IF s = <<>> THEN Infinity
  ELSE LET h == ToNumber(Head(s))
           t == MathMin(Tail(s))
       IN  IF h.k = "nan" \/ t.k = "nan" THEN NaN
           ELSE IF Leq(h, t) THEN h ELSE t

\* --------------------------------------------------------------- inputs
\* amounts a response can carry: a fare, 1e999 (parsed as Infinity), or a
\* fare object without a numeric amount
RawAmounts == {Num(n) : n \in 1..MaxFare} \cup {Infinity, undefined}

\* thresholds from the command line; 0 stands for an option that is not given
TotalDealPrices == {0, 1, 3}
IndividualDealPrices == {0, 1}

\* what the Twilio send does inside sendTextMessage: it returns, its callback
\* still to come, or it throws
SendOutcomes == {"returns", "throws"}

Cycles == 1..MaxCycles

NoResult ==
  [cycle |-> 0, prevOutbound |-> undefined, prevReturn |-> undefined,
   lowestOutbound |-> undefined, lowestReturn |-> undefined,
   outboundFareDiff |-> NaN, returnFareDiff |-> NaN,
   valid |-> FALSE, alert |-> FALSE, send |-> "none",
   outNote |-> "", retNote |-> ""]

\* ---------------------------------------------------------------- state
VARIABLES
  oneWay, totalDealPrice, individualDealPrice, isTwilioConfigured,
  prevLowestOutboundFare, prevLowestReturnFare,
  fares,          \* the shared accumulators
  pc,             \* per cycle: position of its promise chain
  cycle,          \* number of fetch() calls so far
  timers,         \* armed next-cycle timers
  data,           \* the amounts read from the latest response
  cur,            \* what the latest run of the reduce/report handler computed
  trace,          \* the steps the latest handler run performed, in order
  smsPending,     \* number of Twilio callbacks not yet delivered
  verdict,        \* history: per cycle, what faresAreValid was
  lastValid       \* history: lowest fares of the latest valid cycle

vars == <<oneWay, totalDealPrice, individualDealPrice, isTwilioConfigured,
          prevLowestOutboundFare, prevLowestReturnFare, fares, pc, cycle,
          timers, data, cur, trace, smsPending, verdict, lastValid>>

config == <<oneWay, totalDealPrice, individualDealPrice, isTwilioConfigured>>

Init ==
  /\ oneWay \in BOOLEAN
  /\ totalDealPrice \in TotalDealPrices
  /\ individualDealPrice \in IndividualDealPrices
  /\ isTwilioConfigured \in BOOLEAN
  /\ prevLowestOutboundFare = undefined
  /\ prevLowestReturnFare = undefined
  /\ fares = [outbound |-> <<>>, return |-> <<>>]
  /\ pc = [c \in Cycles |-> "none"]
  /\ cycle = 0
  /\ timers = 0
  /\ data = [out |-> Absent, ret |-> Absent]
  /\ cur = NoResult
  /\ trace = <<>>
  /\ smsPending = 0
  /\ verdict = [c \in Cycles |-> "none"]
  /\ lastValid = <<undefined, undefined>>

\* ------------------------------------------------------------- helpers
\* setTimeout is one-shot: firing consumes the timer
AfterFire_Interval(t) == t

AfterFire(t) == t - 1

\* the accumulators are emptied after the reduction
ClearFares_Keep(f) == f

ClearFares(f) == [outbound |-> <<>>, return |-> <<>>]

\* faresAreValid
FaresAreValid(od, rd) ==
  ~(~isNaN(od) /\ ~isNaN(rd) /\ (~isFinite(od) \/ ~isFinite(rd)))

\* the baseline is stored inside "if (faresAreValid)"
NextPrev_Always(valid, prev, lowest) == lowest

NextPrev(valid, prev, lowest) == IF valid THEN lowest ELSE prev

\* awesomeDealIsAwesome
AwesomeDeal_Strict(lo, lr) ==
  \/ totalDealPrice # 0 /\ Leq(Add(lo, lr), Num(totalDealPrice - 1))
  \/ individualDealPrice # 0 /\
       (Leq(lo, Num(individualDealPrice - 1)) \/ Leq(lr, Num(individualDealPrice - 1)))

AwesomeDeal(lo, lr) ==
  \/ totalDealPrice # 0 /\ Leq(Add(lo, lr), Num(totalDealPrice))
  \/ individualDealPrice # 0 /\
       (Leq(lo, Num(individualDealPrice)) \/ Leq(lr, Num(individualDealPrice)))

\* the annotation strings
OutboundDiffString(od, rd) ==
  IF ~isNaN(od) /\ ~isNaN(rd)
  THEN IF Gt0(od) THEN "down" ELSE IF Lt0(od) THEN "up"
       ELSE IF Eq0(od) THEN "no change" ELSE ""
  ELSE ""

ReturnDiffString(od, rd) ==
  IF ~isNaN(od) /\ ~isNaN(rd)
  THEN IF Gt0(rd) /\ ~oneWay THEN "down" ELSE IF Lt0(rd) THEN "up"
       ELSE IF Eq0(rd) THEN "no change" ELSE ""
  ELSE ""

\* sendTextMessage: esc = an exception leaves the function, cb = callbacks
\* Twilio will deliver later
sendTextMessage_NoCatch(outcome) ==
  [esc |-> outcome = "throws",
   cb |-> IF outcome = "throws" THEN 0 ELSE 1]

sendTextMessage(outcome) ==
  [esc |-> FALSE,
   cb |-> IF outcome = "throws" THEN 0 ELSE 1]

\* the fare log lines and the plot point are written inside "if (faresAreValid)"
ReportEvents_Always(valid) == <<"log", "plot">>

ReportEvents(valid) == IF valid THEN <<"log", "plot">> ELSE <<>>

\* ------------------------------------------------------------- actions
\* fetch(): build the request and issue it; the response and the locals of
\* the previous run of the handlers are gone
StartFetch(c) ==
  /\ pc' = [pc EXCEPT ![c] = "fetching"]
  /\ cycle' = c
  /\ data' = [out |-> Absent, ret |-> Absent]
  /\ cur' = NoResult
  /\ trace' = <<>>

\* the call of fetch() at the end of the script
Startup ==
  /\ cycle = 0
  /\ StartFetch(1)
  /\ UNCHANGED <<config, prevLowestOutboundFare, prevLowestReturnFare, fares,
                 timers, smsPending, verdict, lastValid>>

\* the timer armed by setTimeout(fetch, ...) fires
TimerFires ==
  /\ timers > 0
  /\ cycle < MaxCycles
  /\ timers' = AfterFire(timers)
  /\ StartFetch(cycle + 1)
  /\ UNCHANGED <<config, prevLowestOutboundFare, prevLowestReturnFare, fares,
                 smsPending, verdict, lastValid>>

\* rp(options) rejects
RequestRejected(c) ==
  /\ pc[c] = "fetching"
  /\ pc' = [pc EXCEPT ![c] = "rejected"]
  /\ UNCHANGED <<config, prevLowestOutboundFare, prevLowestReturnFare, fares,
                 cycle, timers, data, cur, trace, smsPending, verdict, lastValid>>

\* rp(options) resolves and the extraction handler runs
Extract(c) ==
  /\ pc[c] = "fetching"
  /\ \E out \in RawAmounts \cup {Absent},
        ret \in IF oneWay THEN {Absent} ELSE RawAmounts \cup {Absent} :
       /\ data' = [out |-> out, ret |-> ret]
       /\ IF out = Absent
          THEN /\ fares' = fares
               /\ pc' = [pc EXCEPT ![c] = "rejected"]
          ELSE IF ~oneWay /\ ret = Absent
          THEN /\ fares' = [fares EXCEPT !.outbound = Append(@, out)]
               /\ pc' = [pc EXCEPT ![c] = "rejected"]
          ELSE /\ fares' = [outbound |-> Append(fares.outbound, out),
                            return |-> IF oneWay THEN fares.return
                                       ELSE Append(fares.return, ret)]
               /\ pc' = [pc EXCEPT ![c] = "extracted"]
  /\ UNCHANGED <<config, prevLowestOutboundFare, prevLowestReturnFare,
                 cycle, timers, cur, trace, smsPending, verdict, lastValid>>

\* the handler that reduces, classifies, evaluates, reports and re-arms
Process(c) ==
  /\ pc[c] = "extracted"
  /\ \E outcome \in SendOutcomes :
       LET lowestOutboundFare == MathMin(fares.outbound)
           lowestReturnFare == IF oneWay THEN Num(0) ELSE MathMin(fares.return)
           outboundFareDiff == Sub(prevLowestOutboundFare, lowestOutboundFare)
           returnFareDiff == IF oneWay THEN Num(0)
                             ELSE Sub(prevLowestReturnFare, lowestReturnFare)
           faresAreValid == FaresAreValid(outboundFareDiff, returnFareDiff)
           awesomeDealIsAwesome ==
             faresAreValid /\ AwesomeDeal(lowestOutboundFare, lowestReturnFare)
           sends == awesomeDealIsAwesome /\ isTwilioConfigured
           sent == sendTextMessage(outcome)
           escapes == sends /\ sent.esc
           head == <<"reduce", "clear", "classify">>
                     \o (IF faresAreValid THEN <<"baseline">> ELSE <<>>)
                     \o (IF awesomeDealIsAwesome THEN <<"alert">> ELSE <<>>)
                     \o (IF sends THEN <<"send">> ELSE <<>>)
           logs == faresAreValid \/ Len(ReportEvents(faresAreValid)) > 0
       IN  /\ sends \/ outcome = "returns"
           /\ fares' = ClearFares(fares)
           /\ prevLowestOutboundFare' =
                NextPrev(faresAreValid, prevLowestOutboundFare, lowestOutboundFare)
           /\ prevLowestReturnFare' =
                NextPrev(faresAreValid, prevLowestReturnFare, lowestReturnFare)
           /\ lastValid' = IF faresAreValid
                           THEN <<lowestOutboundFare, lowestReturnFare>>
                           ELSE lastValid
           /\ verdict' = [verdict EXCEPT ![c] =
                           IF faresAreValid THEN "valid" ELSE "invalid"]
           /\ smsPending' = IF sends THEN smsPending + sent.cb ELSE smsPending
           /\ cur' = [cycle |-> c,
                      prevOutbound |-> prevLowestOutboundFare,
                      prevReturn |-> prevLowestReturnFare,
                      lowestOutbound |-> lowestOutboundFare,
                      lowestReturn |-> lowestReturnFare,
                      outboundFareDiff |-> outboundFareDiff,
                      returnFareDiff |-> returnFareDiff,
                      valid |-> faresAreValid,
                      alert |-> awesomeDealIsAwesome,
                      send |-> IF sends THEN outcome ELSE "none",
                      outNote |-> IF logs /\ ~escapes
                                  THEN OutboundDiffString(outboundFareDiff, returnFareDiff)
                                  ELSE "",
                      retNote |-> IF logs /\ ~escapes /\ ~oneWay
                                  THEN ReturnDiffString(outboundFareDiff, returnFareDiff)
                                  ELSE ""]
           /\ IF escapes
              THEN /\ trace' = head
                   /\ timers' = timers
                   /\ pc' = [pc EXCEPT ![c] = "rejected"]
              ELSE /\ trace' = head \o ReportEvents(faresAreValid)
                                    \o <<"render", "arm">>
                   /\ timers' = timers + 1
                   /\ pc' = [pc EXCEPT ![c] = "done"]
  /\ UNCHANGED <<config, cycle, data>>

\* the .catch handler: one red log line
CatchHandler(c) ==
  /\ pc[c] = "rejected"
  /\ pc' = [pc EXCEPT ![c] = "failed"]
  /\ trace' = <<"error">>
  /\ UNCHANGED <<config, prevLowestOutboundFare, prevLowestReturnFare, fares,
                 cycle, timers, data, cur, smsPending, verdict, lastValid>>

\* Twilio delivers the callback of an earlier send; with or without an error
\* it writes one line to the log panel and touches nothing else
SmsCallback ==
  /\ smsPending > 0
  /\ \A c \in Cycles : pc[c] \notin {"extracted", "rejected"}
  /\ smsPending' = smsPending - 1
  /\ UNCHANGED <<config, prevLowestOutboundFare, prevLowestReturnFare, fares,
                 pc, cycle, timers, data, cur, trace, verdict, lastValid>>

Next ==
  \/ Startup
  \/ TimerFires
  \/ \E c \in Cycles : RequestRejected(c)
  \/ \E c \in Cycles : Extract(c)
  \/ \E c \in Cycles : Process(c)
  \/ \E c \in Cycles : CatchHandler(c)
  \/ SmsCallback

Spec == Init /\ [][Next]_vars

\* ------------------------------------------------------------ properties
Has(ev) == \E i \in 1..Len(trace) : trace[i] = ev

Count(ev) == Cardinality({i \in 1..Len(trace) : trace[i] = ev})

Before(a, b) ==
  \E i, j \in 1..Len(trace) : i < j /\ trace[i] = a /\ trace[j] = b

\* the latest cycle started has run its reduce/report handler to the end
Done == cycle >= 1 /\ pc[cycle] = "done"

InFlight ==
  Cardinality({c \in Cycles : pc[c] \in {"fetching", "extracted", "rejected"}})

FinLeq(x, t) == x.k = "num" /\ x.v <= t

BadAmount(x) == x.k \in {"inf", "undef"}

\* C1: after a cycle has failed (request rejected or extraction threw) an
\* error line has been logged and the next cycle is scheduled: a timer is
\* armed or a later cycle has already started.
C1_FailedCycleIsRescheduled ==
  \A c \in Cycles :
    pc[c] = "failed" => (c < cycle \/ (Has("error") /\ timers > 0))

\* C2: in-flight cycles plus armed timers never exceed one, and a timer is
\* armed only by a cycle that has finished: its handler run ends with the
\* arming, after the reduce, classify and render steps (and after the log and
\* plot of a valid cycle).
C2_AtMostOneCycle ==
  /\ InFlight + timers <= 1
  /\ timers > 0 =>
       /\ Done
       /\ trace # <<>>
       /\ trace[Len(trace)] = "arm"
       /\ Count("arm") = 1
       /\ Before("reduce", "arm") /\ Before("classify", "arm")
       /\ Before("render", "arm")
       /\ cur.valid => Before("log", "render") /\ Before("plot", "render")

C2_Witness == timers = 1 /\ cycle >= 2 /\ pc[cycle] = "done"

\* C3: the two baseline variables change only in the step that completes a
\* valid cycle; every handler run computes its diffs against the lowest
\* fares of the most recent earlier valid cycle, and an invalid run leaves
\* the baseline as it was.
C3_BaselineOnlyOnValid ==
  [][ /\ (<<prevLowestOutboundFare, prevLowestReturnFare>>' #
            <<prevLowestOutboundFare, prevLowestReturnFare>>)
           => (cycle >= 1 /\ pc[cycle] = "extracted" /\ pc'[cycle] = "done"
               /\ cur'.valid)
      /\ (cur'.cycle \notin {0, cur.cycle}) =>
           /\ cur'.prevOutbound = lastValid[1]
           /\ cur'.prevReturn = lastValid[2]
           /\ cur'.outboundFareDiff = Sub(lastValid[1], cur'.lowestOutbound)
           /\ ~oneWay => cur'.returnFareDiff = Sub(lastValid[2], cur'.lowestReturn)
           /\ ~cur'.valid =>
                /\ prevLowestOutboundFare' = lastValid[1]
                /\ prevLowestReturnFare' = lastValid[2]
    ]_vars

\* a valid third cycle that followed an invalid second one
C3_Witness ==
  /\ cycle = 3 /\ pc[3] = "done" /\ cur.valid
  /\ verdict[2] = "invalid" /\ verdict[1] = "valid"
  /\ cur.prevOutbound # prevLowestOutboundFare

\* C4: a cycle whose extraction produced an infinite or non-numeric amount
\* for a leg is invalid, leaves the baseline unchanged and fires no alert.
C4_GarbageIsInvalid ==
  (Done /\ (BadAmount(data.out) \/ (~oneWay /\ BadAmount(data.ret)))) =>
    /\ ~cur.valid
    /\ prevLowestOutboundFare = cur.prevOutbound
    /\ prevLowestReturnFare = cur.prevReturn
    /\ ~cur.alert

C6_AlertIff ==
  Done =>
    LET lo == cur.lowestOutbound
        lr == cur.lowestReturn
        totalMet == /\ totalDealPrice # 0
                    /\ lo.k = "num" /\ lr.k = "num"
                    /\ lo.v + lr.v <= totalDealPrice
        individualMet == /\ individualDealPrice # 0
                         /\ (FinLeq(lo, individualDealPrice)
                             \/ FinLeq(lr, individualDealPrice))
    IN  /\ cur.alert <=> (cur.valid /\ (totalMet \/ individualMet))
        /\ Has("alert") <=> cur.alert

\* the alert fires in the first cycle, where no baseline exists
C6_Witness ==
  /\ Done /\ cycle = 1 /\ cur.alert /\ ~oneWay
  /\ cur.prevOutbound = undefined

\* C7: in a valid one-way cycle the alert fires only if a configured
\* threshold is met by the outbound fare alone.
C7_OneWayIgnoresReturn ==
  (Done /\ oneWay /\ cur.valid /\ cur.alert) =>
    \/ totalDealPrice # 0 /\ FinLeq(cur.lowestOutbound, totalDealPrice)
    \/ individualDealPrice # 0 /\ FinLeq(cur.lowestOutbound, individualDealPrice)

\* C8: once the handler of the current cycle has fired the alert, the alert
\* line is logged, the send was invoked exactly when Twilio is configured,
\* and whatever the send did the cycle completed: fares logged and plotted,
\* baseline stored, timer armed.
C8_SendNeverAbortsCycle ==
  (cycle >= 1 /\ cur.cycle = cycle /\ cur.alert) =>
    /\ Has("alert")
    /\ Has("send") <=> isTwilioConfigured
    /\ (cur.send # "none") <=> isTwilioConfigured
    /\ pc[cycle] = "done"
    /\ Count("log") = 1 /\ Count("plot") = 1
    /\ Before("alert", "log")
    /\ prevLowestOutboundFare = cur.lowestOutbound
    /\ prevLowestReturnFare = cur.lowestReturn
    /\ trace[Len(trace)] = "arm"
    /\ timers = 1

\* the send threw, and the cycle still completed
C8_Witness ==
  /\ cycle >= 1 /\ cur.cycle = cycle /\ cur.alert /\ cur.send = "throws"
  /\ pc[cycle] = "done"

\* C9: in a valid cycle the annotation logged for a leg is "down" exactly
\* when previous minus current is positive, "up" exactly when it is negative,
\* "no change" exactly when it is zero; the first cycle logs no annotation.
C9_TrendMatchesDiff ==
  (Done /\ cur.valid) =>
    LET od == Sub(cur.prevOutbound, cur.lowestOutbound)
        rd == Sub(cur.prevReturn, cur.lowestReturn)
    IN  /\ (cur.outNote = "down") <=> Gt0(od)
        /\ (cur.outNote = "up") <=> Lt0(od)
        /\ (cur.outNote = "no change") <=> Eq0(od)
        /\ ~oneWay => /\ (cur.retNote = "down") <=> Gt0(rd)
                      /\ (cur.retNote = "up") <=> Lt0(rd)
                      /\ (cur.retNote = "no change") <=> Eq0(rd)
        /\ cycle = 1 => cur.outNote = "" /\ cur.retNote = ""

====
